---- MODULE Spec2Model ----
(***************************************************************************)
(* The page-builder block model and its controllers.                       *)
(*                                                                         *)
(* The repository holds four page editors over the same block model and    *)
(* one theme (section) editor built the same way:                          *)
(*   "PB"   PageBuilder          src/src/components/PageBuilder/PageBuilder.tsx *)
(*   "VPE"  VisualPageEditor     .../PageBuilder/VisualPageEditor.tsx 1-477     *)
(*   "SE"   ShopifyEditor        .../PageBuilder/VisualPageEditor.tsx 479-911   *)
(*   "SSE"  ShopifyStyleEditor   src/unnamed/part_001                           *)
(*   "TE"   ThemeEditor          src/README.md 246-                             *)
(* One editor is mounted at a time; `editor` says which.  The remote page  *)
(* store, the requests in flight and the query cache are part of the state. *)
(*                                                                         *)
(* Abstractions: a block id `block-${Date.now()}` is the pair <<t, 0>>,    *)
(* `block-${Date.now()}-${random}` the pair <<t, r>>, the id of a block    *)
(* stored on page p at the start <<0, p>>; config values are the letters   *)
(* "a"/"b" and a hero block keeps two of its keys; a page record is its    *)
(* title and its content.  The `enabled` flag of a theme section, the      *)
(* colours and the fonts are left out.  One run is one editing session of  *)
(* at most MaxSteps edits, saves and page changes; responses of the server *)
(* arrive in any order at any time.                                        *)
(*                                                                         *)
(* The block operations are the handlers of the components, called with    *)
(* any id: an id of the buffer or one that is not in it (AbsentId).  The   *)
(* user interface calls them with ids of the buffer only, and VPE, SE with *)
(* the id of the selected block only.  Math.random() is taken not to give  *)
(* the same suffix twice to blocks of one buffer made in one millisecond.  *)
(*                                                                         *)
(* Spec keeps the config of a block by value.  ObjSpec is the view of the  *)
(* add, update and duplicate handlers of PB at the level of JavaScript     *)
(* objects: a config is a reference into `heap`, so that two blocks, or a  *)
(* block and a template, can hold the same object or the same array.       *)
(* RenderSpec applies the three renderers, VPE's renderBlock behind        *)
(* generatePreviewHTML, renderBlockPreview behind BlockCanvas (PB) and     *)
(* ShopifyEditor's renderBlockPreview, to block lists of every shape a     *)
(* page content can give, on different days and with different blocks      *)
(* selected; the output of a renderer is the variant it chose and the      *)
(* texts it filled in.  PreviewSpec is ShopifyStyleEditor with its preview *)
(* effect: every change of the buffer sends a render request, and the      *)
(* answers arrive in any order.                                            *)
(***************************************************************************)
EXTENDS Integers, Sequences, FiniteSets, TLC

\* ---------------------------------------------------------------- bounds
MaxBlocks == 3
MaxTime == 2
MaxInflight == 2
MaxSteps == 3
MaxRendered == 2

\* ------------------------------------------------------------ value sets
Editors == {"PB", "VPE", "SE", "SSE", "TE"}
Pages == {1, 2}
Types == {"hero", "image"}
Vals == {"a", "b"}
Rnd == {1, 2}
NoId == <<0, 0>>
\* an id no block of any buffer has
AbsentId == <<0, Cardinality(Pages) + 1>>
\* pages[0].id of the page list; the theme record is kept under the same key
FirstPage == CHOOSE p \in Pages : \A q \in Pages : p <= q
ThemeKey == FirstPage

\* the page record state before a load: VPE's and SE's (new page) placeholder,
\* SE's null, PB's empty pageSettings
Placeholder == [present |-> TRUE, id |-> 0, title |-> "New Page"]
NoPage == [present |-> FALSE, id |-> 0, title |-> ""]
EmptySettings == [present |-> TRUE, id |-> 0, title |-> ""]

\* ------------------------------------------------------ serialized content
\* content of a page record: nothing (null, undefined or the empty string,
\* all falsy: `content || '[]'`, `page.blocks || []`, `if (content)`), text
\* that JSON.parse rejects, or the JSON text of a block list; ws tells whether
\* the text is written with insignificant white space (not what
\* JSON.stringify emits)
Absent == [kind |-> "absent", ws |-> FALSE, blocks |-> <<>>]
Malformed == [kind |-> "malformed", ws |-> FALSE, blocks |-> <<>>]
Json(ws, bs) == [kind |-> "json", ws |-> ws, blocks |-> bs]

NoData == [present |-> FALSE, title |-> "", content |-> Absent]

\* ------------------------------------------------------------- catalog
getDefaultConfig(type) ==
  CASE type = "hero" -> [title |-> "a", subtitle |-> "a"]
    [] type = "text" -> [content |-> "a"]
    [] OTHER -> <<>>

\* the fields the settings form of an editor offers for a block
FormKeys(e, b) ==
  IF e = "SSE"
    THEN CASE b.type = "hero" -> {"title", "subtitle"}
           [] b.type = "text" -> {"content"}
           [] OTHER -> {}
    ELSE DOMAIN b.config

\* ------------------------------------------------------------ list helpers
Ids(bs) == {bs[i].id : i \in DOMAIN bs}

\* Array.prototype.findIndex, 1-based; 0 when absent (JS: -1)
findIndex(bs, id) ==
  IF \E i \in DOMAIN bs : bs[i].id = id
    THEN CHOOSE i \in DOMAIN bs : bs[i].id = id /\ \A j \in 1..(i - 1) : bs[j].id # id
    ELSE 0

\* {...a, ...b}
Spread(a, b) ==
  [k \in (DOMAIN a) \cup (DOMAIN b) |-> IF k \in DOMAIN b THEN b[k] ELSE a[k]]

\* JSON.stringify(blocks): the canonical text of the list
stringify(bs) == Json(FALSE, bs)

\* Date.now() after it returned n: the same millisecond or the next one (ids are
\* only compared for equality, so a longer wait gives nothing new)
Clock(n) == {t \in n..MaxTime : t <= n + 1}

\* `block-${Date.now()}-${Math.random()...}` in PB, `block-${Date.now()}` elsewhere
NewId(e, t, r) == IF e = "PB" THEN <<t, r>> ELSE <<t, 0>>
RndOf(e) == IF e = "PB" THEN Rnd ELSE {0}
\* the suffix Math.random() gives to a new block of the buffer bs at time t: one
\* no block of bs made at t has; suffixes are only compared for equality, so the
\* least unused one stands for every unused one
FreshRnd(e, bs, t) ==
  {r \in RndOf(e) : e = "PB" =>
     /\ NewId(e, t, r) \notin Ids(bs)
     /\ \A q \in RndOf(e) : q < r => NewId(e, t, q) \in Ids(bs)}

\* ------------------------------------------------- block-list operations
\* setBlocks([...blocks, newBlock]); config is { ...defaultConfig }
addBlock(bs, id, type, cfg) ==
  Append(bs, [id |-> id, type |-> type, config |-> Spread(<<>>, cfg)])

\* what the settings form hands to updateBlock when one field is edited
FieldPatch(e, b, key, val) ==
  IF e \in {"SE", "TE"} THEN (key :> val) ELSE Spread(b.config, (key :> val))

\* blocks.map(b => b.id === blockId ? {...b, config}                    (PB, SSE)
\*                                  : {...b, config: {...b.config, ...config}}  (VPE, SE, TE)
updateBlock(e, bs, id, cfg) ==
  [i \in DOMAIN bs |->
     IF bs[i].id = id
       THEN [bs[i] EXCEPT !.config =
               IF e \in {"PB", "SSE"} THEN cfg ELSE Spread(bs[i].config, cfg)]
       ELSE bs[i]]

\* blocks.filter(b => b.id !== blockId)
deleteBlock(bs, id) == SelectSeq(bs, LAMBDA b : b.id # id)

\* variant: the block is written over its neighbour, which is lost
moveBlockOverwrite(bs, id, dir) ==
  LET index == findIndex(bs, id)
      newIndex == IF dir = "up" THEN index - 1 ELSE index + 1
  IN IF index = 0 \/ newIndex < 1 \/ newIndex > Len(bs)
       THEN bs
       ELSE [bs EXCEPT ![newIndex] = bs[index]]

\* swap with the neighbour; nothing when the id is absent or at the boundary
moveBlock(bs, id, dir) ==
  LET index == findIndex(bs, id)
      newIndex == IF dir = "up" THEN index - 1 ELSE index + 1
  IN IF index = 0 \/ newIndex < 1 \/ newIndex > Len(bs)
       THEN bs
       ELSE [bs EXCEPT ![index] = bs[newIndex], ![newIndex] = bs[index]]

\* variant: the copy keeps the id of the original ({...block} alone)
duplicateBlockSameId(bs, id, newId) ==
  LET index == findIndex(bs, id)
  IN IF index = 0
       THEN bs
       ELSE SubSeq(bs, 1, index) \o <<bs[index]>> \o SubSeq(bs, index + 1, Len(bs))

\* newBlocks.splice(index + 1, 0, {...block, id: <new id>})
duplicateBlock(bs, id, newId) ==
  LET index == findIndex(bs, id)
  IN IF index = 0
       THEN bs
       ELSE SubSeq(bs, 1, index)
              \o <<[bs[index] EXCEPT !.id = newId]>>
              \o SubSeq(bs, index + 1, Len(bs))

\* selection after addBlock: VPE, SE and TE select the new block
SelAfterAdd(e, sel, id) == IF e \in {"VPE", "SE", "TE"} THEN id ELSE sel

\* selection after deleteBlock(id) on the list bs
SelAfterDelete(e, sel, id, bs) ==
  CASE e \in {"PB", "SSE"} -> IF sel = id THEN NoId ELSE sel
    [] e \in {"VPE", "SE"} -> NoId
    [] OTHER -> IF sel = id
                  THEN (IF Len(bs) > 0 THEN bs[1].id ELSE NoId)
                  ELSE sel

\* ------------------------------------------------------- loading a page
\* variant: a parser that rejects text written with white space
parseContentStrict(c) == IF c.kind = "json" /\ ~c.ws THEN c.blocks ELSE <<>>

\* try { JSON.parse(content || '[]') } catch { [] }: the block list of a content
parseContent(c) == IF c.kind = "json" THEN c.blocks ELSE <<>>

\* variant: no catch around JSON.parse, a content that does not parse leaves
\* the buffer as it is
EffBlocksNoCatch(e, d, p, old) ==
  IF d.content.kind = "json"
    THEN d.content.blocks
    ELSE IF d.content.kind = "absent" /\ e \in {"PB", "VPE", "SE"} THEN <<>> ELSE old

\* the buffer after the load code of editor e has seen the record d of page p:
\* PB takes page.blocks || [], VPE and SE parse the content, SSE parses it
\* only when it is truthy, TE takes the settings only when they are there
EffBlocks(e, d, p, old) ==
  CASE e \in {"PB", "VPE", "SE"} -> parseContent(d.content)
    [] e = "SSE" -> IF d.content.kind = "absent" THEN old ELSE parseContent(d.content)
    [] OTHER -> IF d.content.kind = "json" THEN d.content.blocks ELSE old

\* the page record / page settings / local settings after that load
EffPage(e, d, p, old) ==
  CASE e \in {"PB", "VPE", "SE"} -> [present |-> TRUE, id |-> p, title |-> d.title]
    [] e = "SSE" -> old
    [] OTHER -> IF d.content.kind = "json"
                  THEN [present |-> TRUE, id |-> p, title |-> d.title]
                  ELSE old

\* the selection after that load: only TE touches it
EffSel(e, d, sel) ==
  IF e = "TE" /\ d.content.kind = "json" /\ Len(d.content.blocks) > 0 /\ sel = NoId
    THEN d.content.blocks[1].id
    ELSE sel

\* -------------------------------------------------------------- requests
\* variant: the body is serialized from the buffer as it is when the request
\* completes
RequestBodyAtCompletion(s, buf) == stringify(buf)

\* the body a save request s carries to the server: serialized when save is
\* invoked (JSON.stringify(blocks) is evaluated before the request is sent);
\* buf is the buffer at the time the server answers
RequestBody(s, buf) == stringify(s.blocks)

RemoveAt(q, i) == SubSeq(q, 1, i - 1) \o SubSeq(q, i + 1, Len(q))

\* arrayMove(items, oldIndex, newIndex) of @dnd-kit/sortable:
\*   newArray.splice(to < 0 ? newArray.length + to : to, 0,
\*                   newArray.splice(from, 1)[0])
\* with the indices of findIndex (0 here is -1 there: splice(-1, 1) takes the
\* last element, and a negative target counts from the end)
arrayMove(bs, from, to) ==
  LET n == Len(bs)
      f == IF from = 0 THEN n ELSE from
      t == IF to = 0 THEN n ELSE to
      rest == SubSeq(bs, 1, f - 1) \o SubSeq(bs, f + 1, n)
  IN IF n = 0
       THEN bs
       ELSE SubSeq(rest, 1, t - 1) \o <<bs[f]>> \o SubSeq(rest, t, n - 1)
Orphan(q) == [i \in DOMAIN q |-> [q[i] EXCEPT !.live = FALSE]]

\* previewHtml is '' and no preview request is in flight
NoPreview == [reqs |-> <<>>, html |-> <<>>]

\* ----------------------------------------------------------------- state
VARIABLES
  editor,           \* the mounted component
  mounted,          \* FALSE after onBack / onClose has unmounted it
  pageId,           \* prop pageId (PB, VPE, SE), selectedPageId (SSE); 0: none / new page
  page,             \* page (VPE, SE), pageSettings (PB), localSettings present (TE)
  blocks,           \* the edit buffer
  selectedBlockId,
  isSaving,         \* isSaving (SE, SSE, TE), saveMutation.isPending (PB)
  now,              \* the last value Date.now() returned
  server,           \* the remote page records
  cache,            \* the query cache of ['page', id] / ['active-theme']
  loads,            \* page fetches in flight
  saves,            \* save requests in flight
  steps,            \* edits, saves and page changes made in this session
  lastOp,           \* the last operation and its arguments (history)
  heap,             \* the config objects and arrays, by reference (ObjSpec only)
  created,          \* the POST /pages requests of this session the server accepted
  preview           \* SSE: the preview requests in flight and previewHtml (PreviewSpec only)

vars == <<editor, mounted, pageId, page, blocks, selectedBlockId, isSaving,
          now, server, cache, loads, saves, steps, lastOp, heap, created,
          preview>>

Op(name) ==
  [op |-> name, id |-> NoId, over |-> NoId, type |-> "", key |-> "", val |-> "",
   page |-> 0, idx |-> 0, live |-> FALSE, alert |-> "", out |-> <<>>]

UsesQuery(e) == e \in {"PB", "SSE", "TE"}

\* the page id a freshly mounted editor e works on, given the prop p
MountPageId(e, p) ==
  CASE e = "SSE" -> 0
    [] e = "TE" -> ThemeKey
    [] OTHER -> p

\* useState initial values
MountPage(e, p) ==
  CASE e = "PB" -> EmptySettings
    [] e = "VPE" -> Placeholder
    [] e = "SE" -> IF p = 0 THEN Placeholder ELSE NoPage
    [] OTHER -> NoPage

\* the page records the server can hold at the start.  An editor that stays
\* on the page it was opened with (PB, SE, TE) is opened on the first page,
\* whose content is then of any kind; VPE and SSE start on the first page,
\* which holds one block, and can go to the second, of any kind.  PB receives
\* page.blocks as an array or not at all, TE likewise theme.settings.
OneBlock(p) ==
  Json(FALSE, <<[id |-> <<0, p>>,
                 type |-> "hero", config |-> getDefaultConfig("hero")]>>)

\* the same list written with line breaks and spaces
Spaced(p) == Json(TRUE, OneBlock(p).blocks)

Switches(e) == e \in {"VPE", "SSE"}

InitContents(e, p) ==
  CASE e = "TE" -> {OneBlock(p)}
    [] Switches(e) = (p = FirstPage) -> {OneBlock(p)}
    [] e = "PB" -> {Absent, OneBlock(p)}
    [] e = "SSE" -> {Absent, Malformed, OneBlock(p)}
    [] OTHER -> {Absent, Malformed, OneBlock(p), Spaced(p)}

Init ==
  \E e \in Editors, p \in {0, FirstPage} :
    /\ editor = e
    /\ mounted = TRUE
    /\ pageId = MountPageId(e, p)
    /\ page = MountPage(e, p)
    /\ blocks = <<>>
    /\ selectedBlockId = NoId
    /\ isSaving = FALSE
    /\ now = 1
    /\ server \in {f \in [Pages -> [title : {"T"},
                                    content : UNION {InitContents(e, q) : q \in Pages}]] :
                     \A q \in Pages : f[q].content \in InitContents(e, q)}
    /\ cache = [q \in Pages |-> NoData]
    /\ loads = IF MountPageId(e, p) # 0 THEN {MountPageId(e, p)} ELSE {}
    /\ saves = <<>>
    /\ steps = 0
    /\ lastOp = Op("mount")
    /\ heap = <<>>
    /\ created = 0
    /\ preview = NoPreview

\* the editing UI is rendered: PB shows "Loading page..." while the first
\* fetch is pending, TE until localSettings is set
UIReady ==
  /\ mounted
  /\ editor = "PB" => ~(pageId # 0 /\ pageId \in loads /\ ~cache[pageId].present)
  /\ editor = "TE" => page.present

selectedBlock == findIndex(blocks, selectedBlockId)

\* the ids a handler can be called with
IdArgs == Ids(blocks) \cup {AbsentId}

\* ------------------------------------------------------- block operations
AddBlock ==
  /\ UIReady
  /\ steps < MaxSteps
  /\ steps' = steps + 1
  /\ Len(blocks) < MaxBlocks
  /\ \E type \in Types, t \in Clock(now) :
     \E r \in FreshRnd(editor, blocks, t) :
       LET id == NewId(editor, t, r)
       IN /\ now' = t
          /\ blocks' = addBlock(blocks, id, type, getDefaultConfig(type))
          /\ selectedBlockId' = SelAfterAdd(editor, selectedBlockId, id)
          /\ lastOp' = [Op("addBlock") EXCEPT !.id = id, !.type = type]
  /\ UNCHANGED <<preview, created, heap, editor, mounted, pageId, page, isSaving, server, cache,
                 loads, saves>>

\* updateBlock(id, config) as the settings form calls it when one field of
\* the block is edited; with an id that is not in the buffer, for one key
UpdateField ==
  /\ UIReady
  /\ steps < MaxSteps
  /\ steps' = steps + 1
  /\ \E id \in IdArgs, val \in Vals :
       LET i == findIndex(blocks, id)
       IN \E key \in (IF i = 0 THEN {"title"} ELSE FormKeys(editor, blocks[i])) :
            /\ i # 0 /\ key \in DOMAIN blocks[i].config => blocks[i].config[key] # val
            /\ i = 0 => val = "b"
            /\ blocks' = updateBlock(editor, blocks, id,
                                     IF i = 0 THEN (key :> val)
                                              ELSE FieldPatch(editor, blocks[i], key, val))
            /\ lastOp' = [Op("updateBlock") EXCEPT !.id = id, !.key = key, !.val = val,
                                                   !.idx = i]
  /\ UNCHANGED <<preview, created, heap, editor, mounted, pageId, page, selectedBlockId, isSaving,
                 now, server, cache, loads, saves>>

DeleteBlock ==
  /\ UIReady
  /\ steps < MaxSteps
  /\ steps' = steps + 1
  /\ \E id \in IdArgs :
       /\ blocks' = deleteBlock(blocks, id)
       /\ selectedBlockId' = SelAfterDelete(editor, selectedBlockId, id, blocks)
       /\ lastOp' = [Op("deleteBlock") EXCEPT !.id = id, !.idx = findIndex(blocks, id)]
  /\ UNCHANGED <<preview, created, heap, editor, mounted, pageId, page, isSaving, now, server,
                 cache, loads, saves>>

\* moveBlock / moveSection: PB has none
MoveBlock ==
  /\ UIReady
  /\ steps < MaxSteps
  /\ steps' = steps + 1
  /\ editor # "PB"
  /\ \E id \in IdArgs, dir \in {"up", "down"} :
       /\ blocks' = moveBlock(blocks, id, dir)
       /\ lastOp' = [Op("moveBlock") EXCEPT !.id = id, !.key = dir,
                                            !.idx = findIndex(blocks, id)]
  /\ UNCHANGED <<preview, created, heap, editor, mounted, pageId, page, selectedBlockId, isSaving,
                 now, server, cache, loads, saves>>

DuplicateBlock ==
  /\ UIReady
  /\ steps < MaxSteps
  /\ steps' = steps + 1
  /\ editor = "PB"
  /\ Len(blocks) < MaxBlocks
  /\ \/ \E id \in Ids(blocks), t \in Clock(now) :
          \E r \in FreshRnd(editor, blocks, t) :
            /\ now' = t
            /\ blocks' = duplicateBlock(blocks, id, NewId(editor, t, r))
            /\ lastOp' = [Op("duplicateBlock") EXCEPT !.id = id,
                                                      !.over = NewId(editor, t, r),
                                                      !.idx = findIndex(blocks, id)]
     \/ \* no block has the id: find() returns undefined, no id is made
        /\ blocks' = duplicateBlock(blocks, AbsentId, NoId)
        /\ lastOp' = [Op("duplicateBlock") EXCEPT !.id = AbsentId]
        /\ UNCHANGED now
  /\ UNCHANGED <<preview, created, heap, editor, mounted, pageId, page, selectedBlockId, isSaving,
                 server, cache, loads, saves>>

\* PB handleDragEnd: a block is dropped on another one, or outside the list
\* (over is null: NoId)
DragEnd ==
  /\ UIReady
  /\ steps < MaxSteps
  /\ steps' = steps + 1
  /\ editor = "PB"
  /\ \E active \in IdArgs, over \in IdArgs \cup {NoId} :
       /\ blocks' = IF over # NoId /\ active # over
                      THEN arrayMove(blocks, findIndex(blocks, active),
                                     findIndex(blocks, over))
                      ELSE blocks
       /\ lastOp' = [Op("dragEnd") EXCEPT !.id = active, !.over = over]
  /\ UNCHANGED <<preview, created, heap, editor, mounted, pageId, page, selectedBlockId, isSaving,
                 now, server, cache, loads, saves>>

\* click on a block, or the close button of the settings panel
SelectBlock ==
  /\ UIReady
  /\ \E id \in Ids(blocks) \cup (IF editor = "TE" THEN {} ELSE {NoId}) :
       /\ id # selectedBlockId
       /\ selectedBlockId' = id
       /\ lastOp' = Op("selectBlock")
  /\ UNCHANGED <<preview, created, heap, editor, mounted, pageId, page, blocks, isSaving, now,
                 server, cache, loads, saves, steps>>

\* ------------------------------------------------------------ page loads
\* the record a GET of page p returns
Fetched(p) == [present |-> TRUE, title |-> server[p].title, content |-> server[p].content]

\* A fetch of page p completes.  VPE/SE loadPage: setPage(response.data) and
\* setBlocks(JSON.parse(content || '[]')), whatever pageId is by now.  PB, SSE,
\* TE: the query cache takes the data under the key of p; the component sees
\* it, and runs its load effect, when p is the key it observes and the data
\* differ from the cached ones (structural sharing keeps the reference).
LoadDone(p) ==
  /\ p \in loads
  /\ loads' = loads \ {p}
  /\ LET d == Fetched(p)
         seen == IF UsesQuery(editor)
                   THEN mounted /\ p = pageId /\ d # cache[p]
                   ELSE TRUE
     IN /\ lastOp' = [Op("loadDone") EXCEPT !.page = p, !.live = seen,
                                           !.idx = Len(blocks)]
        /\ cache' = IF UsesQuery(editor) THEN [cache EXCEPT ![p] = d] ELSE cache
        /\ blocks' = IF seen THEN EffBlocks(editor, d, p, blocks) ELSE blocks
        /\ page' = IF seen THEN EffPage(editor, d, p, page) ELSE page
        /\ selectedBlockId' = IF seen THEN EffSel(editor, d, selectedBlockId)
                                      ELSE selectedBlockId
  /\ UNCHANGED <<preview, created, heap, editor, mounted, pageId, isSaving, now, server, saves,
                 steps>>

\* the query observer turns to the key of page p (a mount, or the page
\* selector of SSE): cached data are shown at once and the load effect runs
\* on them; the query is stale, so a fetch starts
Observe(p) ==
  LET d == cache[p]
  IN /\ blocks' = IF d.present THEN EffBlocks(editor, d, p, blocks) ELSE blocks
     /\ selectedBlockId' = IF d.present THEN EffSel(editor, d, selectedBlockId)
                                        ELSE selectedBlockId
     /\ loads' = loads \cup {p}

\* SSE: the page selector
SelectPage ==
  /\ mounted
  /\ steps < MaxSteps
  /\ steps' = steps + 1
  /\ editor = "SSE"
  /\ pageId # 0
  /\ \E p \in Pages \ {pageId} :
       /\ pageId' = p
       /\ Observe(p)
       /\ lastOp' = [Op("selectPage") EXCEPT !.page = p]
  /\ UNCHANGED <<preview, created, heap, editor, mounted, page, isSaving, now, server, cache,
                 saves>>

\* SSE: the page list has arrived and no page is selected: pages[0] is selected
AutoSelect ==
  /\ mounted
  /\ editor = "SSE"
  /\ pageId = 0
  /\ LET p == FirstPage
     IN /\ pageId' = p
        /\ Observe(p)
        /\ lastOp' = [Op("autoSelect") EXCEPT !.page = p]
  /\ UNCHANGED <<preview, created, heap, editor, mounted, page, isSaving, now, server, cache,
                 saves, steps>>

\* VPE: the parent renders the mounted editor with the id of another
\* existing page; the effect on [pageId] calls loadPage for it
SetPageId ==
  /\ mounted
  /\ steps < MaxSteps
  /\ steps' = steps + 1
  /\ editor = "VPE"
  /\ \E p \in Pages \ {pageId} :
       /\ pageId' = p
       /\ loads' = IF p > 0 THEN loads \cup {p} ELSE loads
       /\ lastOp' = [Op("setPageId") EXCEPT !.page = p]
  /\ UNCHANGED <<preview, created, heap, editor, mounted, page, blocks, selectedBlockId, isSaving,
                 now, server, cache, saves>>

\* ----------------------------------------------------------------- saves
\* the Save button is rendered and enabled
SaveEnabled ==
  /\ UIReady
  /\ CASE editor = "VPE" -> TRUE
       [] editor = "SSE" -> ~isSaving /\ pageId # 0
       [] OTHER -> ~isSaving

\* savePage / handleSave / saveMutation.mutate: SE and VPE return at once
\* without a page record; the others send the request
Save ==
  /\ SaveEnabled
  /\ steps < MaxSteps
  /\ steps' = steps + 1
  /\ editor \in {"VPE", "SE", "TE"} => page.present
  /\ Len(saves) < MaxInflight
  /\ saves' = Append(saves, [page |-> pageId, blocks |-> blocks, title |-> page.title,
                             live |-> TRUE])
  /\ isSaving' = (editor # "VPE")
  /\ lastOp' = [Op("save") EXCEPT !.page = pageId]
  /\ UNCHANGED <<preview, created, heap, editor, mounted, pageId, page, blocks, selectedBlockId,
                 now, server, cache, loads>>

\* PB, VPE and SE send the page settings with the blocks, SSE and TE the
\* blocks (sections) alone
SendsSettings(e) == e \in {"PB", "VPE", "SE"}

\* what the server holds after it has accepted the request s: a PUT replaces
\* the record of the page, a POST (s.page = 0) adds a record and leaves the
\* existing ones alone
Stored(s, buf) ==
  IF s.page = 0
    THEN server
    ELSE [server EXCEPT ![s.page] =
            [title |-> IF SendsSettings(editor) THEN s.title ELSE server[s.page].title,
             content |-> RequestBody(s, buf)]]

\* alert(...) after a save: TE shows none
SuccessAlert(e) == IF e = "TE" THEN "" ELSE "saved"

\* variant: a rejected request is swallowed without a notice
NoFailureAlert(e) == ""

FailureAlert(e) == IF e = "TE" THEN "" ELSE "error"

\* variant: no editor calls onClose() after a save
NeverCloses(e) == FALSE

\* onClose() after a successful save of VPE and SE unmounts the editor
ClosesOnSave(e) == e \in {"VPE", "SE"}

\* the request succeeds
SaveOk ==
  \E i \in DOMAIN saves :
    LET s == saves[i]
        closes == s.live /\ ClosesOnSave(editor)
    IN /\ server' = Stored(s, blocks)
       /\ saves' = IF closes THEN Orphan(RemoveAt(saves, i)) ELSE RemoveAt(saves, i)
       /\ isSaving' = IF s.live THEN FALSE ELSE isSaving
       /\ mounted' = IF closes THEN FALSE ELSE mounted
       /\ loads' = CASE closes -> {}
                     [] s.live /\ editor \in {"SSE", "TE"} -> loads \cup {pageId}
                     [] OTHER -> loads
       /\ lastOp' = [Op("saveOk") EXCEPT !.page = s.page, !.idx = i, !.live = s.live,
                                          !.alert = SuccessAlert(editor)]
       /\ created' = IF s.page = 0 THEN created + 1 ELSE created
       /\ UNCHANGED <<preview, heap, editor, pageId, page, blocks, selectedBlockId,
                      now, cache, steps>>

\* the request fails: PB onError, the catch of VPE, SE and SSE; TE has no
\* error handler
SaveFail ==
  \E i \in DOMAIN saves :
    LET s == saves[i]
    IN /\ saves' = RemoveAt(saves, i)
       /\ isSaving' = IF s.live /\ editor # "TE" THEN FALSE ELSE isSaving
       /\ lastOp' = [Op("saveFail") EXCEPT !.page = s.page, !.idx = i, !.live = s.live,
                                            !.alert = FailureAlert(editor)]
       /\ UNCHANGED <<preview, created, heap, editor, mounted, pageId, page, blocks,
                      selectedBlockId, now, server, cache, loads,
                      steps>>

\* -------------------------------------------------------- specification
Next ==
  \/ AddBlock
  \/ UpdateField
  \/ DeleteBlock
  \/ MoveBlock
  \/ DuplicateBlock
  \/ DragEnd
  \/ SelectBlock
  \/ \E p \in Pages : LoadDone(p)
  \/ SelectPage
  \/ AutoSelect
  \/ SetPageId
  \/ Save
  \/ SaveOk
  \/ SaveFail

Spec == Init /\ [][Next]_vars

\* ------------------------------------------- PB at the level of objects
\* blockTemplates: each template holds a reference to its config object
blockTemplates ==
  <<[type |-> "hero", config |-> 1], [type |-> "text", config |-> 3]>>

\* the objects of the module blockTemplates.ts: the config of the hero
\* template with its `buttons` array, the config of the text template
TemplateObjects == <<[heading |-> "a", buttons |-> 2], <<"a">>, [content |-> "a"]>>

\* the keys whose value is an array (edited as JSON text in the settings form)
ArrayKeys == {"buttons"}

\* the value of the config object c, its arrays included
Deep(h, c) ==
  [k \in DOMAIN h[c] |-> IF k \in ArrayKeys THEN h[h[c][k]] ELSE h[c][k]]

\* { ...defaultConfig }: a new object with the same values, arrays by reference
ShallowCopy(h, c) == Append(h, h[c])

\* variant: the form assigns block.config[key] = value before it hands the
\* object on
WriteConfigInPlace(h, c, key, v) ==
  Append([h EXCEPT ![c] = Spread(h[c], (key :> v))], Spread(h[c], (key :> v)))

\* BlockEditor.handleChange: onUpdate({ ...block.config, [key]: value }), a new
\* object; the heap after it
WriteConfig(h, c, key, v) == Append(h, Spread(h[c], (key :> v)))

ObjInit ==
  /\ editor = "PB"
  /\ mounted = TRUE
  /\ pageId = 0
  /\ page = EmptySettings
  /\ blocks = <<>>
  /\ selectedBlockId = NoId
  /\ isSaving = FALSE
  /\ now = 1
  /\ server = [q \in Pages |-> [title |-> "T", content |-> Absent]]
  /\ cache = [q \in Pages |-> NoData]
  /\ loads = {}
  /\ saves = <<>>
  /\ steps = 0
  /\ lastOp = Op("mount")
  /\ heap = TemplateObjects
  /\ created = 0
  /\ preview = NoPreview

\* BlockLibrary: onAddBlock(template.type, template.config)
handleAddBlock ==
  /\ steps < MaxSteps
  /\ steps' = steps + 1
  /\ Len(blocks) < MaxBlocks
  /\ \E i \in DOMAIN blockTemplates, t \in Clock(now) :
     \E r \in FreshRnd(editor, blocks, t) :
       LET tpl == blockTemplates[i]
           id == NewId(editor, t, r)
       IN /\ now' = t
          /\ heap' = ShallowCopy(heap, tpl.config)
          /\ blocks' = Append(blocks, [id |-> id, type |-> tpl.type,
                                       config |-> Len(heap')])
          /\ lastOp' = [Op("addBlock") EXCEPT !.id = id, !.type = tpl.type]
  /\ UNCHANGED <<preview, created, editor, mounted, pageId, page, selectedBlockId, isSaving,
                 server, cache, loads, saves>>

\* the settings form edits one field of a block: a text field takes the
\* text typed, an array field the array parsed from the JSON typed (a new
\* array); handleUpdateBlock puts the new config object into the block
handleChange ==
  /\ steps < MaxSteps
  /\ steps' = steps + 1
  /\ \E id \in Ids(blocks), val \in Vals :
       LET b == blocks[findIndex(blocks, id)]
       IN \E key \in DOMAIN heap[b.config] :
            LET h1 == IF key \in ArrayKeys THEN Append(heap, <<val>>) ELSE heap
                v == IF key \in ArrayKeys THEN Len(h1) ELSE val
            IN /\ heap' = WriteConfig(h1, b.config, key, v)
               /\ blocks' = updateBlock(editor, blocks, id, Len(heap'))
               /\ lastOp' = [Op("updateBlock") EXCEPT !.id = id, !.key = key,
                                                      !.val = val]
  /\ UNCHANGED <<preview, created, editor, mounted, pageId, page, selectedBlockId, isSaving,
                 now, server, cache, loads, saves>>

\* { ...block, id }: the copy holds the config object of the original
handleDuplicateBlock ==
  /\ steps < MaxSteps
  /\ steps' = steps + 1
  /\ Len(blocks) < MaxBlocks
  /\ \E id \in Ids(blocks), t \in Clock(now) :
     \E r \in FreshRnd(editor, blocks, t) :
       /\ now' = t
       /\ blocks' = duplicateBlock(blocks, id, NewId(editor, t, r))
       /\ lastOp' = [Op("duplicateBlock") EXCEPT !.id = id, !.over = NewId(editor, t, r),
                                                 !.idx = findIndex(blocks, id)]
  /\ UNCHANGED <<preview, created, heap, editor, mounted, pageId, page, selectedBlockId, isSaving,
                 server, cache, loads, saves>>

ObjNext ==
  \/ handleAddBlock
  \/ handleChange
  \/ handleDuplicateBlock

ObjSpec == ObjInit /\ [][ObjNext]_vars

\* ------------------------------------------------------------- renderers
\* the types the inputs are drawn from: known to both renderers, known to
\* renderBlockPreview only, known to none
RenderTypes == {"hero", "text", "cta", "blog-grid", "custom"}

\* the case labels of the two switch statements
KnownTypes(e) ==
  IF e \in {"VPE", "SE"}
    THEN {"hero", "text", "image", "call-to-action"}
    ELSE {"hero", "text", "image", "gallery", "product-grid", "products-grid",
          "products-carousel", "email-signup", "email-popup", "text-image",
          "text-image-multi", "faq", "blog-grid", "blog-featured", "features",
          "testimonials", "cta", "collection-list", "call-to-action",
          "section-two-column", "header", "footer"}

\* what a renderer yields when it throws (a property of undefined is read)
Thrown == [throws |-> TRUE]

\* the block has a config to read from
HasConfig(b) == "config" \in DOMAIN b

\* block.config.k: undefined and '' are both falsy and both written ""
Field(b, k) == IF k \in DOMAIN b.config THEN b.config[k] ELSE ""

\* v || d
Or(v, d) == IF v = "" THEN d ELSE v

\* ${c.k} in a template literal: a missing field is written "undefined"
Interp(b, k) == IF k \in DOMAIN b.config THEN b.config[k] ELSE "undefined"

\* new Date().toLocaleDateString(): the day of the clock
Today == now

\* variant: the default branch reads a field of the config
renderBlockPreviewReadsConfig(b) ==
  IF HasConfig(b)
    THEN [throws |-> FALSE, variant |-> "default",
          label |-> Or(Field(b, "title"), b.type)]
    ELSE Thrown

\* BlockCanvas.tsx renderBlockPreview
renderBlockPreview(b) ==
  CASE b.type = "hero" ->
         IF HasConfig(b)
           THEN [throws |-> FALSE, variant |-> "hero",
                 backgroundImage |-> Or(Field(b, "backgroundImage"), "linear-gradient"),
                 title |-> Or(Field(b, "title"),
                              Or(Field(b, "heading"), "Welcome to Our Store")),
                 subtitle |-> Or(Field(b, "subtitle"),
                                 Or(Field(b, "subheading"), "Discover amazing products"))]
           ELSE Thrown
    [] b.type = "text" ->
         IF HasConfig(b)
           THEN [throws |-> FALSE, variant |-> "text",
                 heading |-> Or(Field(b, "heading"), "Heading"),
                 content |-> Or(Field(b, "content"), "<p>Text content...</p>")]
           ELSE Thrown
    [] b.type = "cta" ->
         IF HasConfig(b)
           THEN [throws |-> FALSE, variant |-> "cta",
                 heading |-> Or(Field(b, "heading"), "Ready to Get Started?"),
                 text |-> Or(Field(b, "text"),
                             "Join thousands of satisfied customers today")]
           ELSE Thrown
    [] b.type = "blog-grid" ->
         IF HasConfig(b)
           THEN [throws |-> FALSE, variant |-> "blog-grid",
                 heading |-> Or(Field(b, "heading"), "Latest from Our Blog"),
                 date |-> Today]
           ELSE Thrown
    [] OTHER -> [throws |-> FALSE, variant |-> "default", label |-> b.type]

\* VisualPageEditor.renderBlock
renderBlock(b) ==
  CASE b.type = "hero" ->
         IF HasConfig(b)
           THEN [throws |-> FALSE, variant |-> "hero",
                 backgroundImage |-> Interp(b, "backgroundImage"),
                 title |-> Or(Field(b, "title"), "Hero Title"),
                 subtitle |-> Or(Field(b, "subtitle"), "Subtitle")]
           ELSE Thrown
    [] b.type = "text" ->
         IF HasConfig(b)
           THEN [throws |-> FALSE, variant |-> "text",
                 heading |-> Or(Field(b, "heading"), "Heading"),
                 content |-> Or(Field(b, "content"), "<p>Your content here...</p>")]
           ELSE Thrown
    [] OTHER -> [throws |-> FALSE, variant |-> "default", label |-> b.type]

\* ShopifyEditor.renderBlockPreview: every variant carries the class name
\* `block-preview ${isSelected ? 'selected' : ''}`
ShopifyEditor_renderBlockPreview(b, sel) ==
  CASE b.type = "hero" ->
         IF HasConfig(b)
           THEN [throws |-> FALSE, variant |-> "hero", selected |-> (sel = b.id),
                 backgroundImage |-> Or(Field(b, "backgroundImage"), "linear-gradient"),
                 title |-> Or(Field(b, "title"), "Hero Title"),
                 subtitle |-> Or(Field(b, "subtitle"), "Subtitle")]
           ELSE Thrown
    [] b.type = "text" ->
         IF HasConfig(b)
           THEN [throws |-> FALSE, variant |-> "text", selected |-> (sel = b.id),
                 heading |-> Or(Field(b, "heading"), "Heading"),
                 content |-> Or(Field(b, "content"), "<p>Your content here...</p>")]
           ELSE Thrown
    [] OTHER -> [throws |-> FALSE, variant |-> "default", selected |-> (sel = b.id),
                 label |-> b.type]

\* the renderer behind each editor
RenderOne(e, b) ==
  CASE e = "VPE" -> renderBlock(b)
    [] e = "SE" -> ShopifyEditor_renderBlockPreview(b, selectedBlockId)
    [] OTHER -> renderBlockPreview(b)

\* blocksToRender.map(renderBlock) of generatePreviewHTML, blocks.map of
\* BlockCanvas and of ShopifyEditor: one output per block, in the order of
\* the list
RenderAll(e, bs) == [i \in DOMAIN bs |-> RenderOne(e, bs[i])]

\* the blocks a page content can hold at position i: of any type, with an
\* empty config, with one field set, or with no config at all
RenderConfigs == {<<>>, ("title" :> "b"), ("heading" :> "b")}
RenderBlocksAt(i) ==
  {[id |-> <<0, i>>, type |-> t, config |-> c] : t \in RenderTypes, c \in RenderConfigs}
    \cup {[id |-> <<0, i>>, type |-> t] : t \in RenderTypes}
RenderInputs ==
  UNION {{bs \in [1..n -> UNION {RenderBlocksAt(i) : i \in 1..n}] :
            \A i \in 1..n : bs[i] \in RenderBlocksAt(i)} : n \in 0..MaxRendered}

RenderInit ==
  /\ editor \in {"PB", "VPE", "SE"}
  /\ mounted = TRUE
  /\ pageId = 0
  /\ page = MountPage(editor, 0)
  /\ blocks \in RenderInputs
  /\ selectedBlockId = NoId
  /\ isSaving = FALSE
  /\ now = 1
  /\ server = [q \in Pages |-> [title |-> "T", content |-> Absent]]
  /\ cache = [q \in Pages |-> NoData]
  /\ loads = {}
  /\ saves = <<>>
  /\ steps = 0
  /\ lastOp = Op("mount")
  /\ heap = <<>>
  /\ created = 0
  /\ preview = NoPreview

\* the component renders the buffer
Render ==
  /\ lastOp' = [Op("render") EXCEPT !.out = RenderAll(editor, blocks)]
  /\ UNCHANGED <<preview, created, heap, editor, mounted, pageId, page, blocks, selectedBlockId,
                 isSaving, now, server, cache, loads, saves, steps>>

\* a day passes between two renders
NextDay ==
  /\ now < MaxTime
  /\ now' = now + 1
  /\ UNCHANGED <<preview, created, heap, editor, mounted, pageId, page, blocks, selectedBlockId,
                 isSaving, server, cache, loads, saves, steps, lastOp>>

\* a block of the canvas is clicked between two renders
ClickBlock ==
  /\ \E id \in Ids(blocks) :
       /\ selectedBlockId # id
       /\ selectedBlockId' = id
  /\ UNCHANGED <<preview, created, heap, editor, mounted, pageId, page, blocks, isSaving, now,
                 server, cache, loads, saves, steps, lastOp>>

RenderNext == Render \/ NextDay \/ ClickBlock

RenderSpec == RenderInit /\ [][RenderNext]_vars

\* ------------------------------------------------------------ PreviewSpec
\* POST /storefront/preview {blocks}: the HTML of the block list, made of the
\* type and the config of each block in the order of the list
renderPreview(bs) == [i \in DOMAIN bs |-> [type |-> bs[i].type, config |-> bs[i].config]]

\* the effect on [blocks]: after setBlocks(bs) a preview request for bs is
\* sent when bs is not empty
PreviewEffect(bs) ==
  preview' = IF Len(bs) > 0 THEN [preview EXCEPT !.reqs = Append(@, bs)] ELSE preview

\* the iframe with srcDoc={previewHtml} is on screen
PreviewShown == Len(blocks) > 0 /\ preview.html # <<>>

\* ShopifyStyleEditor with its first page selected and loaded; the effect has
\* run on the loaded buffer
PreviewInit ==
  /\ editor = "SSE"
  /\ mounted = TRUE
  /\ pageId = FirstPage
  /\ page = MountPage("SSE", FirstPage)
  /\ \E c \in {Absent, OneBlock(FirstPage)} :
       /\ server = [q \in Pages |-> [title |-> "T", content |-> c]]
       /\ cache = [q \in Pages |-> IF q = FirstPage
                                     THEN [present |-> TRUE, title |-> "T", content |-> c]
                                     ELSE NoData]
       /\ blocks = parseContent(c)
       /\ preview = [reqs |-> IF Len(parseContent(c)) > 0 THEN <<parseContent(c)>>
                                                           ELSE <<>>,
                     html |-> <<>>]
  /\ selectedBlockId = NoId
  /\ isSaving = FALSE
  /\ now = 1
  /\ loads = {}
  /\ saves = <<>>
  /\ steps = 0
  /\ lastOp = Op("mount")
  /\ heap = <<>>
  /\ created = 0

\* addBlock, then the effect
PreviewAddBlock ==
  /\ steps < MaxSteps
  /\ steps' = steps + 1
  /\ Len(blocks) < MaxBlocks
  /\ Len(preview.reqs) < MaxInflight
  /\ \E type \in Types, t \in Clock(now) :
       LET id == NewId(editor, t, 0)
       IN /\ now' = t
          /\ blocks' = addBlock(blocks, id, type, getDefaultConfig(type))
          /\ PreviewEffect(blocks')
          /\ lastOp' = [Op("addBlock") EXCEPT !.id = id, !.type = type]
  /\ UNCHANGED <<created, heap, editor, mounted, pageId, page, selectedBlockId,
                 isSaving, server, cache, loads, saves>>

\* updateBlock from the settings form, then the effect
PreviewUpdateBlock ==
  /\ steps < MaxSteps
  /\ steps' = steps + 1
  /\ Len(preview.reqs) < MaxInflight
  /\ \E i \in DOMAIN blocks, val \in Vals :
       \E key \in FormKeys(editor, blocks[i]) :
         /\ key \in DOMAIN blocks[i].config => blocks[i].config[key] # val
         /\ blocks' = updateBlock(editor, blocks, blocks[i].id,
                                  FieldPatch(editor, blocks[i], key, val))
         /\ PreviewEffect(blocks')
         /\ lastOp' = [Op("updateBlock") EXCEPT !.id = blocks[i].id, !.key = key,
                                                !.val = val, !.idx = i]
  /\ UNCHANGED <<created, heap, editor, mounted, pageId, page, selectedBlockId,
                 isSaving, now, server, cache, loads, saves>>

\* deleteBlock, then the effect: no request for an empty buffer
PreviewDeleteBlock ==
  /\ steps < MaxSteps
  /\ steps' = steps + 1
  /\ Len(preview.reqs) < MaxInflight
  /\ \E id \in Ids(blocks) :
       /\ blocks' = deleteBlock(blocks, id)
       /\ selectedBlockId' = SelAfterDelete(editor, selectedBlockId, id, blocks)
       /\ PreviewEffect(blocks')
       /\ lastOp' = [Op("deleteBlock") EXCEPT !.id = id, !.idx = findIndex(blocks, id)]
  /\ UNCHANGED <<created, heap, editor, mounted, pageId, page, isSaving, now,
                 server, cache, loads, saves>>

\* moveBlock, then the effect; a move that returns early sets no state
PreviewMoveBlock ==
  /\ steps < MaxSteps
  /\ steps' = steps + 1
  /\ Len(preview.reqs) < MaxInflight
  /\ \E id \in Ids(blocks), dir \in {"up", "down"} :
       /\ moveBlock(blocks, id, dir) # blocks
       /\ blocks' = moveBlock(blocks, id, dir)
       /\ PreviewEffect(blocks')
       /\ lastOp' = [Op("moveBlock") EXCEPT !.id = id, !.key = dir,
                                            !.idx = findIndex(blocks, id)]
  /\ UNCHANGED <<created, heap, editor, mounted, pageId, page, selectedBlockId,
                 isSaving, now, server, cache, loads, saves>>

\* the answer to the request i arrives, in any order: setPreviewHtml(response.data)
PreviewDone ==
  /\ \E i \in DOMAIN preview.reqs :
       /\ preview' = [reqs |-> RemoveAt(preview.reqs, i),
                      html |-> renderPreview(preview.reqs[i])]
       /\ lastOp' = [Op("previewDone") EXCEPT !.idx = i]
  /\ UNCHANGED <<created, heap, editor, mounted, pageId, page, blocks,
                 selectedBlockId, isSaving, now, server, cache, loads, saves, steps>>

\* the request i fails: the error is logged, previewHtml stays
PreviewFail ==
  /\ \E i \in DOMAIN preview.reqs :
       /\ preview' = [preview EXCEPT !.reqs = RemoveAt(preview.reqs, i)]
       /\ lastOp' = [Op("previewFail") EXCEPT !.idx = i]
  /\ UNCHANGED <<created, heap, editor, mounted, pageId, page, blocks,
                 selectedBlockId, isSaving, now, server, cache, loads, saves, steps>>

PreviewNext ==
  \/ PreviewAddBlock
  \/ PreviewUpdateBlock
  \/ PreviewDeleteBlock
  \/ PreviewMoveBlock
  \/ PreviewDone
  \/ PreviewFail

PreviewSpec == PreviewInit /\ [][PreviewNext]_vars

\* ------------------------------------------------------------- properties
EditOps == {"addBlock", "updateBlock", "deleteBlock", "moveBlock", "duplicateBlock"}
SaveOps == {"save", "saveOk", "saveFail"}

IdsDistinct(bs) == \A i, j \in DOMAIN bs : i # j => bs[i].id # bs[j].id

\* C1: after any sequence of addBlock, duplicateBlock and deleteBlock calls,
\* two adds within one clock millisecond included, the ids of the blocks in
\* the buffer are pairwise distinct.  Stated for VPE and SSE, the editors
\* whose ids are the clock reading alone.
C1_IdsPairwiseDistinct ==
  editor \in {"VPE", "SSE"} => IdsDistinct(blocks)

\* C2: updateBlock(id, patch), as the settings form calls it for one field
\* of a block of the buffer, changes only that key of the config of the block
\* with that id: every other
\* block, the order of the list and every other key of the target are
\* unchanged.  Stated for the editors whose ids are the clock reading alone.
C2_UpdateChangesOnlyPatchedKey ==
  [][lastOp'.op = "updateBlock" /\ lastOp'.idx # 0 /\ editor \in {"VPE", "SSE"} =>
       LET i == lastOp'.idx
           k == lastOp'.key
       IN /\ Len(blocks') = Len(blocks)
          /\ \A j \in DOMAIN blocks : j # i => blocks'[j] = blocks[j]
          /\ blocks'[i].id = blocks[i].id
          /\ blocks'[i].type = blocks[i].type
          /\ DOMAIN blocks'[i].config = DOMAIN blocks[i].config \cup {k}
          /\ blocks'[i].config[k] = lastOp'.val
          /\ \A x \in DOMAIN blocks[i].config \ {k} :
               blocks'[i].config[x] = blocks[i].config[x]]_vars

C4_StaleLoadIgnored ==
  [][lastOp'.op = "loadDone" /\ mounted /\ lastOp'.page # pageId =>
       blocks' = blocks /\ page' = page]_vars

\* C5: when another page is selected while editing, once the load of the new
\* page completes the buffer holds exactly the blocks deserialized from the
\* content of the new page (none when the content is empty or absent).
C5_BufferIsNewPageContent ==
  [][lastOp.op = "selectPage" /\ lastOp'.op = "loadDone" /\ lastOp'.page = pageId =>
       blocks' = parseContent(server[pageId].content)]_vars

\* C6: every save request of SSE for page P carries only blocks loaded from P
\* or created in the editor (a block loaded from page q has the id <<0, q>>),
\* also when Save is invoked after the selection changed and before the new
\* page has been loaded.
C6_SaveCarriesOwnBlocks ==
  editor = "SSE" =>
    \A i \in DOMAIN saves : \A j \in DOMAIN saves[i].blocks :
      LET id == saves[i].blocks[j].id
      IN id[1] = 0 => id[2] = saves[i].page

C8_FailureLeavesSaving ==
  [][lastOp'.op = "saveFail" /\ lastOp'.live => ~isSaving' /\ SaveEnabled']_vars

\* C9 as stated: after a save succeeds the controller is back in the editing
\* state on the same page, with the buffer unchanged by the save.
C9_BackInEditing ==
  [][lastOp'.op = "saveOk" /\ lastOp'.live =>
       /\ mounted'
       /\ ~isSaving'
       /\ UNCHANGED <<blocks, pageId>>]_vars

\* C9 amended: a successful save leaves the buffer, the selection, the page
\* record and the page edited as they are and ends the saving state; PB, SSE
\* and TE are back in editing, VPE and SE close the editor.
C9_BufferKeptEditorMayClose ==
  [][lastOp'.op = "saveOk" /\ lastOp'.live =>
       /\ UNCHANGED <<blocks, selectedBlockId, page, pageId>>
       /\ ~isSaving'
       /\ lastOp'.alert = (IF editor = "TE" THEN "" ELSE "saved")
       /\ mounted' = (editor \in {"PB", "SSE", "TE"})]_vars

\* VPE or SE has closed after a successful save of a buffer that holds blocks
C9_ClosedAfterSave ==
  /\ lastOp.op = "saveOk"
  /\ lastOp.live
  /\ ~mounted
  /\ Len(blocks) > 0

\* C10: addBlock(type, defaultConfig) on a buffer of n blocks yields n+1
\* blocks, the first n as before, the last of the given type with a config
\* equal to defaultConfig, and the new block becomes the selected block.
C10_AddAppendsAndSelects ==
  [][lastOp'.op = "addBlock" =>
       LET n == Len(blocks)
       IN /\ Len(blocks') = n + 1
          /\ SubSeq(blocks', 1, n) = blocks
          /\ blocks'[n + 1].type = lastOp'.type
          /\ blocks'[n + 1].config = getDefaultConfig(lastOp'.type)
          /\ selectedBlockId' = blocks'[n + 1].id]_vars

\* C11: deleteBlock(id), when a block with that id is in the buffer, removes
\* exactly that block: all the other blocks remain, in the same order, each
\* unchanged.  Stated for PB and VPE.
C11_DeleteRemovesThatBlockOnly ==
  [][lastOp'.op = "deleteBlock" /\ lastOp'.idx # 0 /\ editor \in {"PB", "VPE"} =>
       blocks' = RemoveAt(blocks, lastOp'.idx)]_vars

\* C12: after deleteBlock(id) the selection is cleared if and only if the
\* deleted block was the selected one: deleting another block leaves the
\* selection where it was.  Stated for PB, VPE and SE.
C12_SelectionClearedIffSelectedDeleted ==
  [][lastOp'.op = "deleteBlock" /\ lastOp'.idx # 0 /\ editor \in {"PB", "VPE", "SE"} =>
       selectedBlockId' = (IF selectedBlockId = lastOp'.id THEN NoId
                                                           ELSE selectedBlockId)]_vars

C14_MoveSwapsWithNeighbour ==
  [][lastOp'.op = "moveBlock" /\ lastOp'.idx # 0 =>
       LET i == lastOp'.idx
           j == IF lastOp'.key = "up" THEN i - 1 ELSE i + 1
       IN /\ Len(blocks') = Len(blocks)
          /\ IF j \in DOMAIN blocks
               THEN /\ blocks'[j] = blocks[i]
                    /\ blocks'[i] = blocks[j]
                    /\ \A k \in DOMAIN blocks \ {i, j} : blocks'[k] = blocks[k]
               ELSE blocks' = blocks
          /\ UNCHANGED <<selectedBlockId, page, pageId, mounted, isSaving, server,
                         saves, loads>>]_vars

\* the second of three different blocks has been moved up
C14_MovedUpInListOfThree ==
  /\ lastOp.op = "moveBlock"
  /\ lastOp.key = "up"
  /\ lastOp.idx = 2
  /\ Len(blocks) = 3
  /\ blocks[1].id = lastOp.id
  /\ IdsDistinct(blocks)

\* C15: reorder(fromIndex, toIndex), the drag-end handler of PB, moves the
\* block at fromIndex to toIndex, shifting the blocks between the two and
\* keeping every block; when either index is out of bounds (the dragged or
\* the target id is not in the list) or the two are equal, the list is
\* unchanged.
C15_ReorderMovesOrLeaves ==
  [][lastOp'.op = "dragEnd" =>
       LET from == findIndex(blocks, lastOp'.id)
           to == findIndex(blocks, lastOp'.over)
       IN IF from = 0 \/ to = 0 \/ from = to
            THEN blocks' = blocks
            ELSE /\ Len(blocks') = Len(blocks)
                 /\ blocks'[to] = blocks[from]
                 /\ RemoveAt(blocks', to) = RemoveAt(blocks, from)]_vars

\* C16: update, delete, move and duplicate called with an id that is not in
\* the buffer leave the block list and the selection unchanged and raise no
\* error.  Stated for PB and VPE.
C16_AbsentIdChangesNothing ==
  [][/\ lastOp'.op \in {"updateBlock", "deleteBlock", "moveBlock", "duplicateBlock"}
      /\ lastOp'.id \notin Ids(blocks)
      /\ editor \in {"PB", "VPE"}
      => UNCHANGED <<blocks, selectedBlockId>>]_vars

\* C17: loading a page whose content is not valid JSON completes the load
\* with an empty buffer, whatever the buffer held before, and does not fail
\* the page load: the page record is taken and the editor stays as it is.
\* Stated for the editors that parse the content (VPE, SE, SSE), when the
\* response is delivered to the component and when SSE shows the cached record.
C17_MalformedContentLoadsEmpty ==
  [][/\ (/\ lastOp'.op = "loadDone"
          /\ lastOp'.live
          /\ editor \in {"VPE", "SE", "SSE"}
          /\ server[lastOp'.page].content.kind = "malformed"
          => /\ blocks' = <<>>
             /\ mounted' = mounted
             /\ editor \in {"VPE", "SE"} => page'.present /\ page'.id = lastOp'.page)
      /\ (/\ lastOp'.op = "selectPage"
          /\ cache[lastOp'.page].present
          /\ cache[lastOp'.page].content.kind = "malformed"
          => blocks' = <<>>)]_vars

\* a page whose content does not parse has been loaded over a buffer that
\* held blocks
C17_MalformedLoadedOverBlocks ==
  /\ lastOp.op = "loadDone"
  /\ lastOp.live
  /\ lastOp.idx > 0
  /\ server[lastOp.page].content = Malformed
  /\ blocks = <<>>

\* a save is invoked right after the load of the page edited was delivered,
\* and the content x of that page is the JSON text of a block list
SavedRightAfterLoad ==
  /\ lastOp.op = "loadDone"
  /\ lastOp.live
  /\ lastOp.page = pageId
  /\ lastOp'.op = "save"
  /\ server[pageId].content.kind = "json"

C19_ConfigsAreIndependent ==
  [][/\ \A i \in DOMAIN blockTemplates :
          Deep(heap', blockTemplates[i].config)
            = Deep(TemplateObjects, blockTemplates[i].config)
      /\ (lastOp'.op = "updateBlock" =>
            /\ Len(blocks') = Len(blocks)
            /\ \A j \in DOMAIN blocks :
                 (blocks[j].id # lastOp'.id =>
                    /\ blocks'[j].id = blocks[j].id
                    /\ Deep(heap', blocks'[j].config) = Deep(heap, blocks[j].config)))
      /\ (lastOp'.op \in {"addBlock", "duplicateBlock"} =>
            \A j \in DOMAIN blocks : \E k \in DOMAIN blocks' :
              /\ blocks'[k].id = blocks[j].id
              /\ Deep(heap', blocks'[k].config) = Deep(heap, blocks[j].config))]_vars

\* the first block has been updated after it was duplicated: the copy still
\* holds the config object the first add made, with the values of the
\* template, and the updated block another one
C19_UpdatedNextToItsCopy ==
  /\ heap # <<>>
  /\ lastOp.op = "updateBlock"
  /\ Len(blocks) = 2
  /\ lastOp.id = blocks[1].id
  /\ blocks[2].type = blocks[1].type
  /\ blocks[2].config = Len(TemplateObjects) + 1
  /\ blocks[1].config # blocks[2].config
  /\ Deep(heap, blocks[1].config) # Deep(heap, blocks[2].config)
  /\ \E i \in DOMAIN blockTemplates :
       Deep(heap, blocks[2].config) = Deep(heap, blockTemplates[i].config)

\* C20: for a block whose type is not one of the known variants each
\* renderer returns the generic placeholder labelled with the raw type
\* string, whatever the config of the block (none at all included), without
\* throwing and without leaving the block out of the output.
C20_UnknownTypeRendersPlaceholder ==
  lastOp.op = "render" =>
    /\ Len(lastOp.out) = Len(blocks)
    /\ \A i \in DOMAIN blocks :
         blocks[i].type \notin KnownTypes(editor) =>
           /\ ~lastOp.out[i].throws
           /\ lastOp.out[i].variant = "default"
           /\ lastOp.out[i].label = blocks[i].type

\* a list has been rendered whose second block has a type no renderer knows
\* and no config, after a block of a known type
C20_UnknownTypeWithoutConfigRendered ==
  /\ lastOp.op = "render"
  /\ Len(blocks) = 2
  /\ blocks[1].type = "hero"
  /\ blocks[2].type = "custom"
  /\ ~HasConfig(blocks[2])
  /\ lastOp.out[2].variant = "default"
  /\ lastOp.out[2].label = "custom"

\* the text parts of the output of a renderer
Texts(o) == DOMAIN o \ {"throws", "selected", "date"}

\* C21: for every block type a renderer has a variant for, and an empty
\* config {}, the renderer does not throw and every part of its output is
\* non-empty and filled from a default, none from the missing value.
C21_EmptyConfigRendersDefaults ==
  lastOp.op = "render" =>
    \A i \in DOMAIN blocks :
      (/\ HasConfig(blocks[i])
       /\ blocks[i].config = <<>>
       /\ blocks[i].type \in KnownTypes(editor)) =>
        /\ ~lastOp.out[i].throws
        /\ \A k \in Texts(lastOp.out[i]) : lastOp.out[i][k] \notin {"", "undefined"}

\* C22: two renders of the same buffer give the same output, whatever the
\* day and the selection at the time of each render.
C22_RenderDependsOnBlockOnly ==
  [][(lastOp.op = "render" /\ lastOp'.op = "render" /\ blocks' = blocks) =>
       lastOp'.out = lastOp.out]_vars

\* C23: for every block, VisualPageEditor.renderBlock and renderBlockPreview
\* of BlockCanvas either both render a variant of the type or both render
\* the placeholder of unknown types.
C23_RenderersKnowSameTypes ==
  lastOp.op = "render" =>
    \A i \in DOMAIN blocks :
      HasConfig(blocks[i]) =>
        ((renderBlock(blocks[i]).variant = "default")
           <=> (renderBlockPreview(blocks[i]).variant = "default"))

\* the step is the arrival of a refetch of the page being edited: its record
\* was in the query cache already
Refetched ==
  /\ lastOp'.op = "loadDone"
  /\ UsesQuery(editor)
  /\ lastOp'.page = pageId
  /\ cache[pageId].present

\* C24: while a page is edited, neither a save, nor its completion, nor a
\* refetch of the page record changes the buffer: block mutations made while
\* a save is in flight or after it has succeeded stay in the buffer.
C24_RefetchKeepsBuffer ==
  [][(lastOp'.op \in SaveOps \/ Refetched) => blocks' = blocks]_vars

\* the editors of pages (TE edits the sections of the theme)
PageEditors == {"PB", "VPE", "SE", "SSE"}

\* C25: in every state of a page editor the selected block id is null or the
\* id of a block of the buffer, also after a load or a page switch has
\* replaced the buffer.
C25_SelectionIsInBuffer ==
  (editor \in PageEditors /\ mounted) =>
    (selectedBlockId = NoId \/ selectedBlockId \in Ids(blocks))

\* the record of the page under edit has arrived in the editor
RecordLoaded ==
  IF UsesQuery(editor) THEN cache[pageId].present
                       ELSE page.present /\ page.id = pageId

\* C26: a save request for an existing page is only sent once the record of
\* that page has been loaded, so that it never carries the initial
\* placeholder record or the empty initial buffer.
C26_NoSaveBeforeLoad ==
  [][(lastOp'.op = "save" /\ pageId # 0) => RecordLoaded]_vars

\* the save requests of the mounted editor that are in flight
LiveSaves == {i \in DOMAIN saves : saves[i].live}

\* C27: at most one save request of an editing session is in flight at any
\* time.
C27_OneSaveInFlight == Cardinality(LiveSaves) <= 1

\* C28: in a session on a new page, once a create has succeeded no later
\* save issues another create (POST): it updates the record made.
C28_SingleCreate ==
  [][(lastOp'.op = "save" /\ lastOp'.page = 0) => created = 0]_vars

\* C29: once every preview request in flight has been answered, the preview
\* on screen is the render of the current buffer, in whatever order the
\* answers arrived.
C29_PreviewIsOfCurrentBuffer ==
  (preview.reqs = <<>> /\ PreviewShown) => preview.html = renderPreview(blocks)

\* C30: in the theme section editor, after deleteSection has removed the
\* selected section the selection is null or the id of a section still in
\* the list, never the id of the deleted section.
C30_SelectionAfterDeleteSection ==
  [][(/\ editor = "TE"
      /\ lastOp'.op = "deleteBlock"
      /\ lastOp'.id = selectedBlockId
      /\ lastOp'.id \in Ids(blocks)) =>
       /\ selectedBlockId' # lastOp'.id
       /\ selectedBlockId' = NoId \/ selectedBlockId' \in Ids(blocks')]_vars
====
